---- MODULE Spec2Model ----
(***************************************************************************)
(* bmrot: a BMFont descriptor is parsed, rotated 90 degrees clockwise by   *)
(* Descriptor.Rotate and dumped by Descriptor.String.                      *)
(*                                                                         *)
(* The state is the Descriptor (d), the position of the caller (pc), the   *)
(* Descriptors each Rotate call started from (hist, a history variable),   *)
(* the text the serializer returned (out, one tuple of tokens per line)    *)
(* and the point Common.Scale returned (pt).                               *)
(*                                                                         *)
(* Go's int is 64 bits wide; every value of the model stays far below      *)
(* 2^63, so the arithmetic of Rotate is modelled on the integers.          *)
(***************************************************************************)
EXTENDS Integers, Sequences, FiniteSets

VARIABLES pc, d, hist, out, pt

vars == <<pc, d, hist, out, pt>>

----------------------------------------------------------------------------
(* Bounds of the model *)

\* Rotate is called at most MaxRot times on one Descriptor.
MaxRot == 2
\* Glyph positions X, Y are drawn from 0..MaxCoord.
MaxCoord == 1

----------------------------------------------------------------------------
(* Program constants *)

\* ChannelInfo
Glyph == 0
Outline == 1
GlyphAndOutline == 2
Zero == 3
\* Channel
All == 15

----------------------------------------------------------------------------
(* Inputs *)

\* Code points of the glyphs ('A', 'B').
CharIds == {65, 66}

Coords == 0..MaxCoord
\* Sample glyph sizes; a width below zero is what a char line with width=-1
\* gives, the parser validating nothing.
Widths == {-1, 1}
Heights == {0, 1}
\* Sample page sizes and page ids.
Scales == {1, 2}
PageIds == {0, 1}

\* type Char
CharInputs ==
    [ID : CharIds, X : Coords, Y : Coords, Width : Widths, Height : Heights,
     XOffset : {1}, YOffset : {-2}, XAdvance : {9}, Page : {1}, Channel : {All}]

\* type Page
PageInputs == [ID : PageIds, File : {"sheet.png"}]

\* type Padding, as the values of a padding= attribute (up,right,down,left)
PaddingInputs == {[Up |-> 1, Right |-> 2, Down |-> 3, Left |-> 4]}

\* type Spacing, as the values of a spacing= attribute (horizontal,vertical)
SpacingInputs == {[Horizontal |-> 5, Vertical |-> 7]}

\* type Info
InfoInputs ==
    [Face : {"Arial"}, Size : {32}, Bold : {TRUE}, Italic : {FALSE},
     Charset : {"ANSI"}, Unicode : {TRUE}, StretchH : {100}, Smooth : {TRUE},
     AA : {1}, Padding : PaddingInputs, Spacing : SpacingInputs, Outline : {3}]

\* type Common
CommonInputs ==
    [LineHeight : {7}, Base : {6}, ScaleW : Scales, ScaleH : Scales,
     Packed : {TRUE}, AlphaChannel : {Outline}, RedChannel : {Glyph},
     GreenChannel : {GlyphAndOutline}, BlueChannel : {Zero}]

\* type CharPair, type Kerning
KerningPairs == {<<65, 66>>}
KerningInputs == [Amount : {-1}]

\* The zero values of Go's structs and the empty mappings.
ZeroInfo ==
    [Face |-> "", Size |-> 0, Bold |-> FALSE, Italic |-> FALSE, Charset |-> "",
     Unicode |-> FALSE, StretchH |-> 0, Smooth |-> FALSE, AA |-> 0,
     Padding |-> [Up |-> 0, Right |-> 0, Down |-> 0, Left |-> 0],
     Spacing |-> [Horizontal |-> 0, Vertical |-> 0], Outline |-> 0]

ZeroCommon ==
    [LineHeight |-> 0, Base |-> 0, ScaleW |-> 0, ScaleH |-> 0, Packed |-> FALSE,
     AlphaChannel |-> Glyph, RedChannel |-> Glyph, GreenChannel |-> Glyph,
     BlueChannel |-> Glyph]

EmptyMap == [k \in {} |-> 0]

\* type Descriptor, as parseDescriptor starts from it
ZeroDescriptor ==
    [Info |-> ZeroInfo, Common |-> ZeroCommon, Pages |-> EmptyMap,
     Chars |-> EmptyMap, Kerning |-> EmptyMap]

----------------------------------------------------------------------------
(* Helpers *)

\* m[k] = v of a Go map: the entry is created or overwritten.
Put(m, k, v) == [x \in (DOMAIN m) \cup {k} |-> IF x = k THEN v ELSE m[x]]

\* The orders in which a range loop may produce the keys S of a map.
RECURSIVE Orders(_)
Orders(S) ==
    IF S = {} THEN {<<>>}
    ELSE UNION {{<<x>> \o s : s \in Orders(S \ {x})} : x \in S}

RECURSIVE SetMax(_)
SetMax(S) ==
    LET x == CHOOSE y \in S : TRUE
    IN  IF S = {x} THEN x
        ELSE LET m == SetMax(S \ {x}) IN IF m < x THEN x ELSE m

----------------------------------------------------------------------------
(* Descriptor.Rotate *)

RotatePaddingCCW(p) ==
    [Up |-> p.Right, Right |-> p.Down, Down |-> p.Left, Left |-> p.Up]

\* d.Info.Padding = Padding{Left, Up, Right, Down}
RotatePadding(p) ==
    [Up |-> p.Left, Right |-> p.Up, Down |-> p.Right, Left |-> p.Down]

\* d.Info.Spacing = Spacing{Vertical, Horizontal}
SwapSpacing(s) ==
    [Horizontal |-> s.Vertical, Vertical |-> s.Horizontal]

SwapScaleSequential(c) ==
    LET c1 == [c EXCEPT !.ScaleW = c.ScaleH]
    IN  [c1 EXCEPT !.ScaleH = c1.ScaleW]

\* d.Common.ScaleW, d.Common.ScaleH = d.Common.ScaleH, d.Common.ScaleW
SwapScale(c) == [c EXCEPT !.ScaleW = c.ScaleH, !.ScaleH = c.ScaleW]

RotCharKeepAdvance(c, scaleW) ==
    LET c1 == [c EXCEPT !.X = scaleW - c.Y - c.Height, !.Y = c.X]
        c2 == [c1 EXCEPT !.XOffset = c1.YOffset, !.YOffset = c1.XOffset]
    IN  [c2 EXCEPT !.Width = c2.Height, !.Height = c2.Width]

RotCharNoHeight(c, scaleW) ==
    LET c1 == [c EXCEPT !.X = scaleW - c.Y, !.Y = c.X]
        c2 == [c1 EXCEPT !.XOffset = c1.YOffset, !.YOffset = c1.XOffset]
        c3 == [c2 EXCEPT !.Width = c2.Height, !.Height = c2.Width]
    IN  [c3 EXCEPT !.XAdvance = c3.Width + c3.XOffset]

RotCharNoSizeSwap(c, scaleW) ==
    LET c1 == [c EXCEPT !.X = scaleW - c.Y - c.Height, !.Y = c.X]
        c2 == [c1 EXCEPT !.XOffset = c1.YOffset, !.YOffset = c1.XOffset]
    IN  [c2 EXCEPT !.XAdvance = c2.Width + c2.XOffset]

RotCharFresh(c, scaleW) ==
    [ID |-> c.ID, X |-> scaleW - c.Y - c.Height, Y |-> c.X,
     Width |-> c.Height, Height |-> c.Width,
     XOffset |-> c.YOffset, YOffset |-> c.XOffset,
     XAdvance |-> c.Height + c.YOffset, Page |-> 0, Channel |-> 0]

\* The body of the range loop up to the line-height test: the four
\* assignments to the loop's copy of the glyph, in the order of the code.
RotChar(c, scaleW) ==
    LET c1 == [c EXCEPT !.X = scaleW - c.Y - c.Height, !.Y = c.X]
        c2 == [c1 EXCEPT !.XOffset = c1.YOffset, !.YOffset = c1.XOffset]
        c3 == [c2 EXCEPT !.Width = c2.Height, !.Height = c2.Width]
    IN  [c3 EXCEPT !.XAdvance = c3.Width + c3.XOffset]

MaxLhLast(lh, c) == c.Height

\* if lh < char.Height { lh = char.Height }
MaxLh(lh, c) == IF lh < c.Height THEN c.Height ELSE lh

WriteBackNone(chars, c) == chars

\* d.Chars[char.ID] = char
WriteBack(chars, c) == Put(chars, c.ID, c)

\* for _, char := range d.Chars { ... }: the results the loop can end with.
\* Every entry the map held when the loop began and that was not yet
\* produced is produced once, with the value it holds then; an entry the
\* write-back created during the loop may be produced or skipped (The Go
\* Programming Language Specification, "For statements with range clause").
RECURSIVE RangeChars(_, _, _, _, _)
RangeChars(chars, visited, created, lh, scaleW) ==
    LET unvisited == (DOMAIN chars) \ visited
        done == IF unvisited \subseteq created
                THEN {[Chars |-> chars, lh |-> lh]} ELSE {}
    IN  done \cup UNION {
            LET c == RotChar(chars[k], scaleW)
                nc == WriteBack(chars, c)
            IN  RangeChars(nc, visited \cup {k},
                           created \cup ((DOMAIN nc) \ (DOMAIN chars)),
                           MaxLh(lh, c), scaleW)
            : k \in unvisited}

\* The Descriptors one call of Rotate can leave.
RotateResults(dd) ==
    LET info == [dd.Info EXCEPT !.Padding = RotatePadding(dd.Info.Padding),
                                !.Spacing = SwapSpacing(dd.Info.Spacing)]
        common == SwapScale(dd.Common)
    IN  {[dd EXCEPT !.Info = info,
                    !.Common = [common EXCEPT !.LineHeight = r.lh, !.Base = r.lh],
                    !.Chars = r.Chars]
         : r \in RangeChars(dd.Chars, {}, {}, 0, common.ScaleW)}

----------------------------------------------------------------------------
(* Descriptor.String and the String methods it calls *)

boolToInt(b) == IF b THEN 1 ELSE 0

\* Info.String
InfoString(i) ==
    <<"info", i.Face, i.Size, boolToInt(i.Bold), boolToInt(i.Italic), i.Charset,
      boolToInt(i.Unicode), i.StretchH, boolToInt(i.Smooth), i.AA,
      i.Padding.Up, i.Padding.Right, i.Padding.Down, i.Padding.Left,
      i.Spacing.Horizontal, i.Spacing.Vertical, i.Outline>>

printCommonCharCount(c, p, chars) ==
    <<"common", c.LineHeight, c.Base, c.ScaleW, c.ScaleH,
      Cardinality(DOMAIN chars), boolToInt(c.Packed),
      c.AlphaChannel, c.RedChannel, c.GreenChannel, c.BlueChannel>>

\* printCommon; chars is not a parameter of the code's function and is unused
printCommon(c, p, chars) ==
    <<"common", c.LineHeight, c.Base, c.ScaleW, c.ScaleH,
      Cardinality(DOMAIN p), boolToInt(c.Packed),
      c.AlphaChannel, c.RedChannel, c.GreenChannel, c.BlueChannel>>

\* Page.String
PageString(p) == <<"page", p.ID, p.File>>

\* Char.String
CharString(c) ==
    <<"char", c.ID, c.X, c.Y, c.Width, c.Height, c.XOffset, c.YOffset,
      c.XAdvance, c.Page, c.Channel>>

\* Descriptor.String, the two range loops producing the keys in the orders
\* po and co
String(dd, po, co) ==
    <<InfoString(dd.Info), printCommon(dd.Common, dd.Pages, dd.Chars)>>
    \o [i \in 1..Len(po) |-> PageString(dd.Pages[po[i]])]
    \o <<(<<"chars", Cardinality(DOMAIN dd.Chars)>>)>>
    \o [i \in 1..Len(co) |-> CharString(dd.Chars[co[i]])]

----------------------------------------------------------------------------
(* Common.Scale *)

\* image.Pt(c.ScaleH, c.ScaleH)
Scale(c) == <<c.ScaleH, c.ScaleH>>

----------------------------------------------------------------------------
(* State machine *)

Init ==
    /\ pc = "parsing"
    /\ d = ZeroDescriptor
    /\ hist = <<>>
    /\ out = <<>>
    /\ pt = <<>>

\* parseDescriptor, an info line
ParseInfo ==
    /\ pc = "parsing"
    /\ \E i \in InfoInputs : d' = [d EXCEPT !.Info = i]
    /\ UNCHANGED <<pc, hist, out, pt>>

\* parseDescriptor, a common line
ParseCommon ==
    /\ pc = "parsing"
    /\ \E c \in CommonInputs : d' = [d EXCEPT !.Common = c]
    /\ UNCHANGED <<pc, hist, out, pt>>

\* parseDescriptor, a page line
ParsePage ==
    /\ pc = "parsing"
    /\ \E p \in PageInputs : d' = [d EXCEPT !.Pages = Put(d.Pages, p.ID, p)]
    /\ UNCHANGED <<pc, hist, out, pt>>

\* parseDescriptor, a char line
ParseChar ==
    /\ pc = "parsing"
    /\ \E c \in CharInputs : d' = [d EXCEPT !.Chars = Put(d.Chars, c.ID, c)]
    /\ UNCHANGED <<pc, hist, out, pt>>

\* parseDescriptor, a kerning line
ParseKerning ==
    /\ pc = "parsing"
    /\ \E p \in KerningPairs, k \in KerningInputs :
           d' = [d EXCEPT !.Kerning = Put(d.Kerning, p, k)]
    /\ UNCHANGED <<pc, hist, out, pt>>

\* parseDescriptor returns at the end of the stream (LoadDescriptor in main)
EndOfStream ==
    /\ pc = "parsing"
    /\ pc' = "loaded"
    /\ UNCHANGED <<d, hist, out, pt>>

\* desc.Rotate()
Rotate ==
    /\ pc = "loaded"
    /\ Len(hist) < MaxRot
    /\ d' \in RotateResults(d)
    /\ hist' = Append(hist, d)
    /\ UNCHANGED <<pc, out, pt>>

\* printDescriptor(desc): fmt formats desc with desc.String()
printDescriptor ==
    /\ pc = "loaded"
    /\ \E po \in Orders(DOMAIN d.Pages), co \in Orders(DOMAIN d.Chars) :
           out' = String(d, po, co)
    /\ pc' = "printed"
    /\ UNCHANGED <<d, hist, pt>>

\* desc.Common.Scale()
CallScale ==
    /\ pc = "loaded"
    /\ pt' = Scale(d.Common)
    /\ pc' = "scaled"
    /\ UNCHANGED <<d, hist, out>>

Next ==
    \/ ParseInfo
    \/ ParseCommon
    \/ ParsePage
    \/ ParseChar
    \/ ParseKerning
    \/ EndOfStream
    \/ Rotate
    \/ printDescriptor
    \/ CallScale

Spec == Init /\ [][Next]_vars

----------------------------------------------------------------------------
(* Descriptors built field by field *)

\* Descriptor, Char and the Chars mapping are plain structs and maps: a
\* Descriptor literal may store a glyph under a key that is not its ID, which
\* parseDescriptor never does.
AnyCharMaps == UNION {[K -> CharInputs] : K \in SUBSET CharIds}

InitAny ==
    /\ pc = "loaded"
    /\ d \in [Info : {ZeroInfo}, Common : CommonInputs, Pages : {EmptyMap},
              Chars : AnyCharMaps, Kerning : {EmptyMap}]
    /\ hist = <<>>
    /\ out = <<>>
    /\ pt = <<>>

NextAny ==
    \/ Rotate
    \/ printDescriptor
    \/ CallScale

SpecAny == InitAny /\ [][NextAny]_vars

----------------------------------------------------------------------------
(* Properties *)

\* Rotate has been called; pre is the Descriptor its last call started from.
Rotated == Len(hist) >= 1
pre == hist[Len(hist)]

\* Every glyph is stored under its own ID.
KeyedById(dd) == \A k \in DOMAIN dd.Chars : dd.Chars[k].ID = k

\* C1: one call of Rotate replaces every glyph c by the glyph with
\* X = S - c.Y - c.Height, S being the ScaleH before the call (the ScaleW
\* after it), Y = c.X, Width = c.Height, Height = c.Width,
\* XOffset = c.YOffset, YOffset = c.XOffset and
\* XAdvance = c.Height + c.YOffset, the new Width plus the new XOffset.
C1_GlyphTransform ==
    Rotated =>
        \A k \in DOMAIN pre.Chars :
            /\ k \in DOMAIN d.Chars
            /\ LET c == pre.Chars[k]
                   n == d.Chars[k]
                   S == pre.Common.ScaleH
               IN  /\ S = d.Common.ScaleW
                   /\ n.X = S - c.Y - c.Height
                   /\ n.Y = c.X
                   /\ n.Width = c.Height
                   /\ n.Height = c.Width
                   /\ n.XOffset = c.YOffset
                   /\ n.YOffset = c.XOffset
                   /\ n.XAdvance = c.Height + c.YOffset
                   /\ n.XAdvance = n.Width + n.XOffset

\* A glyph at (1,1) of height 1 on a 1x2 page went to X = 2 - 1 - 1 = 0 and
\* its advance 9 was replaced by 1 + (-2) = -1.
C1_Witness ==
    /\ Len(hist) = 1
    /\ pre.Common.ScaleW = 1 /\ pre.Common.ScaleH = 2
    /\ 65 \in DOMAIN pre.Chars
    /\ pre.Chars[65].X = 1 /\ pre.Chars[65].Y = 1
    /\ pre.Chars[65].Height = 1 /\ pre.Chars[65].Width = 1
    /\ pre.Chars[65].XAdvance = 9
    /\ d.Chars[65].X = 0 /\ d.Chars[65].Y = 1 /\ d.Chars[65].XAdvance = -1

GlyphHeights(dd) == {dd.Chars[k].Height : k \in DOMAIN dd.Chars}
GlyphWidths(dd) == {dd.Chars[k].Width : k \in DOMAIN dd.Chars}

\* C2 as stated: after Rotate, LineHeight is the maximum of the rotated
\* Height (the Width before the call) over all glyphs, 0 when there is no
\* glyph, and Base equals LineHeight.
C2_LineHeightIsMax ==
    Rotated =>
        /\ d.Common.LineHeight =
               (IF DOMAIN d.Chars = {} THEN 0 ELSE SetMax(GlyphHeights(d)))
        /\ d.Common.Base = d.Common.LineHeight

\* C2 as amended: after Rotate, LineHeight is the maximum of 0 and the
\* rotated Heights (the Widths before the call) of all glyphs, and Base
\* equals LineHeight.
C2_LineHeightIsMaxOrZero ==
    Rotated =>
        /\ d.Common.LineHeight = SetMax({0} \cup GlyphHeights(d))
        /\ d.Common.LineHeight = SetMax({0} \cup GlyphWidths(pre))
        /\ d.Common.Base = d.Common.LineHeight

\* Two glyphs of widths 1 and -1 were rotated and the line height is 1,
\* where the parsed common line said 7 and 6.
C2_Witness ==
    /\ Rotated
    /\ DOMAIN d.Chars = {65, 66}
    /\ pre.Chars[65].Width = 1 /\ pre.Chars[66].Width = -1
    /\ pre.Common.LineHeight = 7 /\ pre.Common.Base = 6
    /\ d.Common.LineHeight = 1 /\ d.Common.Base = 1

\* C3: Rotate maps Padding (up,right,down,left) to (left,up,right,down) of
\* the values before the call and Spacing (horizontal,vertical) to
\* (vertical,horizontal).
C3_PaddingSpacing ==
    Rotated =>
        /\ d.Info.Padding.Up = pre.Info.Padding.Left
        /\ d.Info.Padding.Right = pre.Info.Padding.Up
        /\ d.Info.Padding.Down = pre.Info.Padding.Right
        /\ d.Info.Padding.Left = pre.Info.Padding.Down
        /\ d.Info.Spacing.Horizontal = pre.Info.Spacing.Vertical
        /\ d.Info.Spacing.Vertical = pre.Info.Spacing.Horizontal

\* Padding 1,2,3,4 became 4,1,2,3 and spacing 5,7 became 7,5.
C3_Witness ==
    /\ Len(hist) = 1
    /\ pre.Info.Padding = [Up |-> 1, Right |-> 2, Down |-> 3, Left |-> 4]
    /\ pre.Info.Spacing = [Horizontal |-> 5, Vertical |-> 7]
    /\ d.Info.Padding = [Up |-> 4, Right |-> 1, Down |-> 2, Left |-> 3]
    /\ d.Info.Spacing = [Horizontal |-> 7, Vertical |-> 5]

\* C4: Rotate swaps the page dimensions, and the swap takes effect before
\* any glyph is repositioned: every glyph's new X is measured from the
\* ScaleW the call leaves.
C4_ScaleSwap ==
    Rotated =>
        /\ d.Common.ScaleW = pre.Common.ScaleH
        /\ d.Common.ScaleH = pre.Common.ScaleW
        /\ \A k \in DOMAIN pre.Chars :
               d.Chars[k].X + pre.Chars[k].Y + pre.Chars[k].Height
                   = d.Common.ScaleW

\* A 1x2 page with a glyph became a 2x1 page.
C4_Witness ==
    /\ Rotated
    /\ pre.Common.ScaleW = 1 /\ pre.Common.ScaleH = 2
    /\ d.Common.ScaleW = 2 /\ d.Common.ScaleH = 1
    /\ DOMAIN d.Chars # {}

\* C5: Rotate leaves unchanged the Kerning mapping, the Page mapping, every
\* glyph's ID, Page and Channel, every Info field other than Padding and
\* Spacing, and the Common fields Packed and the four channel codes.
C5_Frame ==
    Rotated =>
        /\ d.Kerning = pre.Kerning
        /\ d.Pages = pre.Pages
        /\ \A k \in DOMAIN pre.Chars :
               /\ k \in DOMAIN d.Chars
               /\ d.Chars[k].ID = pre.Chars[k].ID
               /\ d.Chars[k].Page = pre.Chars[k].Page
               /\ d.Chars[k].Channel = pre.Chars[k].Channel
        /\ d.Info.Face = pre.Info.Face
        /\ d.Info.Size = pre.Info.Size
        /\ d.Info.Bold = pre.Info.Bold
        /\ d.Info.Italic = pre.Info.Italic
        /\ d.Info.Charset = pre.Info.Charset
        /\ d.Info.Unicode = pre.Info.Unicode
        /\ d.Info.StretchH = pre.Info.StretchH
        /\ d.Info.Smooth = pre.Info.Smooth
        /\ d.Info.AA = pre.Info.AA
        /\ d.Info.Outline = pre.Info.Outline
        /\ d.Common.Packed = pre.Common.Packed
        /\ d.Common.AlphaChannel = pre.Common.AlphaChannel
        /\ d.Common.RedChannel = pre.Common.RedChannel
        /\ d.Common.GreenChannel = pre.Common.GreenChannel
        /\ d.Common.BlueChannel = pre.Common.BlueChannel

\* A Descriptor with an info line, a common line, two pages, two glyphs and
\* a kerning pair was rotated.
C5_Witness ==
    /\ Rotated
    /\ d.Info.Face = "Arial"
    /\ d.Common.Packed
    /\ DOMAIN d.Pages = {0, 1}
    /\ DOMAIN d.Chars = {65, 66}
    /\ DOMAIN d.Kerning = {<<65, 66>>}
    /\ d.Chars[65].Channel = All /\ d.Chars[65].Page = 1

\* Rotate has been called twice; pre2 is the Descriptor the first of the
\* last two calls started from.
RotatedTwice == Len(hist) >= 2
pre2 == hist[Len(hist) - 1]

\* The per-field rules of one rotation applied two times in sequence.
HalfTurn ==
    /\ \A k \in DOMAIN pre2.Chars :
           /\ k \in DOMAIN d.Chars
           /\ LET c == pre2.Chars[k]
                  n == d.Chars[k]
              IN  /\ n.X = pre2.Common.ScaleW - c.X - c.Width
                  /\ n.Y = pre2.Common.ScaleH - c.Y - c.Height
                  /\ n.Width = c.Width
                  /\ n.Height = c.Height
                  /\ n.XOffset = c.XOffset
                  /\ n.YOffset = c.YOffset
    /\ d.Info.Padding.Up = pre2.Info.Padding.Down
    /\ d.Info.Padding.Right = pre2.Info.Padding.Left
    /\ d.Info.Padding.Down = pre2.Info.Padding.Up
    /\ d.Info.Padding.Left = pre2.Info.Padding.Right

\* The Descriptors a half turn maps to themselves.
FixedByHalfTurn(dd) ==
    /\ \A k \in DOMAIN dd.Chars :
           LET c == dd.Chars[k]
           IN  /\ c.X = dd.Common.ScaleW - c.X - c.Width
               /\ c.Y = dd.Common.ScaleH - c.Y - c.Height
               /\ c.XAdvance = c.Width + c.XOffset
    /\ dd.Info.Padding.Up = dd.Info.Padding.Down
    /\ dd.Info.Padding.Right = dd.Info.Padding.Left
    /\ dd.Common.LineHeight = SetMax({0} \cup GlyphHeights(dd))
    /\ dd.Common.Base = dd.Common.LineHeight

\* C6 as stated: two calls of Rotate give a half turn (each glyph at
\* X = ScaleW0 - X0 - Width0, Y = ScaleH0 - Y0 - Height0 with Width, Height,
\* XOffset, YOffset as at the start, padding (down,left,up,right)), and the
\* Descriptor is not returned to its starting values.
C6_HalfTurnNotIdentity ==
    RotatedTwice => (HalfTurn /\ d # pre2)

\* C6 as amended: two calls of Rotate give the half turn, ScaleW, ScaleH and
\* Spacing are back at their starting values, every XAdvance is
\* Width0 + XOffset0, and the Descriptor equals the one it started from
\* exactly when the half turn maps that one to itself.
C6_HalfTurn ==
    RotatedTwice =>
        /\ HalfTurn
        /\ d.Common.ScaleW = pre2.Common.ScaleW
        /\ d.Common.ScaleH = pre2.Common.ScaleH
        /\ d.Info.Spacing = pre2.Info.Spacing
        /\ \A k \in DOMAIN pre2.Chars :
               d.Chars[k].XAdvance = pre2.Chars[k].Width + pre2.Chars[k].XOffset
        /\ (d = pre2) <=> FixedByHalfTurn(pre2)

\* A glyph at (0,1) of size 1x0 on a 1x2 page was turned twice: it sits at
\* (1 - 0 - 1, 2 - 1 - 0) = (0,1) again but the Descriptor differs from the
\* starting one, the advance 9 having become 1 + 1 = 2.
C6_Witness ==
    /\ Len(hist) = 2
    /\ pre2.Common.ScaleW = 1 /\ pre2.Common.ScaleH = 2
    /\ d.Common.ScaleW = 1 /\ d.Common.ScaleH = 2
    /\ 65 \in DOMAIN pre2.Chars
    /\ pre2.Chars[65].X = 0 /\ pre2.Chars[65].Y = 1
    /\ pre2.Chars[65].Width = 1 /\ pre2.Chars[65].Height = 0
    /\ d.Chars[65].X = 0 /\ d.Chars[65].Y = 1
    /\ d.Chars[65].XAdvance = 2
    /\ pre2.Info.Padding.Up = 1 /\ d.Info.Padding.Up = 3
    /\ d # pre2

\* The lines of out from a to b.
Tags(a, b) == {out[i][1] : i \in a..b}
Ids(a, b) == {out[i][2] : i \in a..b}

\* C7: Descriptor.String emits the info line, the common line, one page line
\* per entry of the Page mapping, a chars line and one char line per entry
\* of the Char mapping, in this order; pages= on the common line is the size
\* of the Page mapping and count= on the chars line the size of the Char
\* mapping; no kerning line is emitted.
C7_StringLines ==
    pc = "printed" =>
        LET np == Cardinality(DOMAIN d.Pages)
            nc == Cardinality(DOMAIN d.Chars)
        IN  /\ Len(out) = 3 + np + nc
            /\ out[1][1] = "info"
            /\ out[2][1] = "common"
            /\ out[2][6] = np
            /\ Tags(3, 2 + np) \subseteq {"page"}
            /\ Ids(3, 2 + np) = DOMAIN d.Pages
            /\ out[3 + np] = <<"chars", nc>>
            /\ Tags(4 + np, 3 + np + nc) \subseteq {"char"}
            /\ Ids(4 + np, 3 + np + nc) = DOMAIN d.Chars
            /\ Tags(1, Len(out)) \cap {"kerning", "kernings"} = {}

\* A rotated Descriptor with two pages, one glyph and a kerning pair was
\* printed.
C7_Witness ==
    /\ pc = "printed"
    /\ Rotated
    /\ DOMAIN d.Pages = {0, 1}
    /\ DOMAIN d.Chars = {66}
    /\ DOMAIN d.Kerning # {}
    /\ Len(out) = 6

\* One application of the loop body to the glyph c.
OnceRotated(c, scaleW) ==
    [ID |-> c.ID, X |-> scaleW - c.Y - c.Height, Y |-> c.X,
     Width |-> c.Height, Height |-> c.Width,
     XOffset |-> c.YOffset, YOffset |-> c.XOffset,
     XAdvance |-> c.Height + c.YOffset, Page |-> c.Page, Channel |-> c.Channel]

\* Rotate kept the key set and transformed every entry exactly once.
EachOnce ==
    /\ DOMAIN d.Chars = DOMAIN pre.Chars
    /\ \A k \in DOMAIN pre.Chars :
           d.Chars[k] = OnceRotated(pre.Chars[k], d.Common.ScaleW)

\* C8 as stated: Rotate keeps the key set of the Char mapping and transforms
\* every entry exactly once, whatever the order of iteration, also for a
\* Descriptor in which some glyph's ID differs from its key.
C8_EachOnceAlways == Rotated => EachOnce

\* C8 as amended: Rotate keeps the key set of the Char mapping and transforms
\* every entry exactly once, whatever the order of iteration, when every
\* glyph is stored under a key equal to its ID.
C8_EachOnceKeyedById == (Rotated /\ KeyedById(pre)) => EachOnce

\* Two glyphs stored under their IDs, differing in every size and position,
\* were rotated.
C8_Witness ==
    /\ Len(hist) = 1
    /\ KeyedById(pre)
    /\ DOMAIN pre.Chars = {65, 66}
    /\ pre.Chars[65].X # pre.Chars[66].X
    /\ pre.Chars[65].Width # pre.Chars[66].Width
    /\ pre.Chars[65].Height # pre.Chars[66].Height
    /\ pre.Common.ScaleW # pre.Common.ScaleH
    /\ d.Chars # pre.Chars

\* Every glyph lies on the page.
Contained(dd) ==
    \A k \in DOMAIN dd.Chars :
        LET c == dd.Chars[k]
        IN  /\ c.Width >= 0 /\ c.Height >= 0
            /\ c.X >= 0 /\ c.Y >= 0
            /\ c.X + c.Width <= dd.Common.ScaleW
            /\ c.Y + c.Height <= dd.Common.ScaleH

\* C9: if every glyph lies on the page before a call of Rotate, every glyph
\* lies on the swapped page after it, and after any number of further calls.
C9_Containment ==
    /\ (Rotated /\ Contained(pre)) => Contained(d)
    /\ (Rotated /\ Contained(hist[1])) => Contained(d)

\* Two glyphs, one of them 1x1 at (1,0) on a 2x1 page, were rotated twice.
C9_Witness ==
    /\ Len(hist) = 2
    /\ Contained(hist[1])
    /\ hist[1].Common.ScaleW = 2 /\ hist[1].Common.ScaleH = 1
    /\ DOMAIN hist[1].Chars = {65, 66}
    /\ hist[1].Chars[65].X = 1 /\ hist[1].Chars[65].Y = 0
    /\ hist[1].Chars[65].Width = 1 /\ hist[1].Chars[65].Height = 1
    /\ d.Chars[65].X = 0

\* C10: Common.Scale returns the point (ScaleW, ScaleH), so that after
\* Rotate it returns the two components it had before, exchanged.
C10_ScaleIsPageSize ==
    pc = "scaled" =>
        /\ pt = <<d.Common.ScaleW, d.Common.ScaleH>>
        /\ Rotated => pt = <<pre.Common.ScaleH, pre.Common.ScaleW>>

====
